---- MODULE Spec2Model ----
(***************************************************************************)
(* Model of the streaming relay worker of openai-sdk-streaming             *)
(* (src/src/index.ts, the handler at lines 121-284): the fetch handler,    *)
(* the upstream streaming call, the ReadableStream whose start() callback  *)
(* copies upstream events to the response body, and the client that reads  *)
(* or cancels that body.                                                   *)
(*                                                                         *)
(* The handler is an async function: it is modelled as one action per      *)
(* stretch of code between two awaits.  The calls on the stream controller *)
(* (enqueue, close, error) and on the reader (read, cancel) follow the     *)
(* WHATWG Streams algorithms for a default controller.                     *)
(***************************************************************************)
EXTENDS Naturals, Sequences, FiniteSets

\* Longest upstream event sequence explored.
MaxEvents == 2

\* Sessions of the model; a session handles one inbound request.
Sessions == {1, 2}

------------------------------------------------------------------------------
\* Requests

Methods == {"OPTIONS", "GET", "POST", "PUT"}

RelayPath == "/api/turn_response"

Paths == {RelayPath, "/api/unknown", "/"}

\* Request bodies.  kind "invalid": the text is not JSON; kind "null": the
\* JSON value null; kind "object": a JSON object, with or without the
\* fields `messages` and `tools`.
MessageSeqs == {<< >>, <<"m1", "m2">>, <<"m2", "m1">>, <<"m1", "m1">>}

ToolSeqs == {<<"t1">>}

Bodies ==
    {[kind |-> "invalid", hasMessages |-> FALSE, messages |-> << >>,
      hasTools |-> FALSE, tools |-> << >>],
     [kind |-> "null", hasMessages |-> FALSE, messages |-> << >>,
      hasTools |-> FALSE, tools |-> << >>]}
    \cup {[kind |-> "object", hasMessages |-> FALSE, messages |-> << >>,
           hasTools |-> ht, tools |-> IF ht THEN t ELSE << >>] :
              ht \in BOOLEAN, t \in ToolSeqs}
    \cup {[kind |-> "object", hasMessages |-> TRUE, messages |-> m,
           hasTools |-> ht, tools |-> IF ht THEN t ELSE << >>] :
              m \in MessageSeqs, ht \in BOOLEAN, t \in ToolSeqs}

Requests == [method : Methods, path : Paths, body : Bodies]

NoRequest ==
    [method |-> "NONE", path |-> "",
     body |-> [kind |-> "invalid", hasMessages |-> FALSE, messages |-> << >>,
               hasTools |-> FALSE, tools |-> << >>]]

------------------------------------------------------------------------------
\* Responses

corsHeaders ==
    [allowOrigin |-> "*", allowMethods |-> "GET, POST, OPTIONS",
     allowHeaders |-> "Content-Type"]

NoCors == [allowOrigin |-> "", allowMethods |-> "", allowHeaders |-> ""]

NoResponse == [status |-> 0, cors |-> NoCors, contentType |-> "", body |-> "none"]

\* new Response(null, { headers: {...corsHeaders} }): the status defaults to 200.
PreflightResponse ==
    [status |-> 200, cors |-> corsHeaders, contentType |-> "", body |-> "null"]

DocumentationResponse ==
    [status |-> 200, cors |-> corsHeaders, contentType |-> "text/html",
     body |-> "html"]

\* new Response('Not found', { status: 404 }): no headers are given.
NotFoundResponse ==
    [status |-> 404, cors |-> NoCors, contentType |-> "text/plain",
     body |-> "Not found"]

MethodNotAllowedResponse ==
    [status |-> 405, cors |-> corsHeaders, contentType |-> "text/plain",
     body |-> "Method not allowed"]

ErrorResponse ==
    [status |-> 500, cors |-> corsHeaders, contentType |-> "application/json",
     body |-> "error json"]

StreamResponse ==
    [status |-> 200, cors |-> corsHeaders, contentType |-> "text/event-stream",
     body |-> "stream"]

\* Defective variant of RouteResponse: the routing of the handler at lines
\* 15-105, which answers every method but OPTIONS and POST with 405.
RouteResponseV1(r) ==
    IF r.method = "OPTIONS" THEN PreflightResponse
    ELSE IF r.method # "POST" THEN MethodNotAllowedResponse
    ELSE IF r.path # RelayPath THEN NotFoundResponse
    ELSE NoResponse

\* Defective variant of RouteResponse: no preflight branch, so OPTIONS falls
\* through to the default 405.
RouteResponseNoPreflight(r) ==
    IF r.method = "GET" THEN DocumentationResponse
    ELSE IF r.method = "POST"
         THEN IF r.path # RelayPath THEN NotFoundResponse ELSE NoResponse
    ELSE MethodNotAllowedResponse

\* The part of fetch that runs before the first await: the response decided
\* by method and path, or NoResponse when the handler goes on to read the body.
RouteResponse(r) ==
    IF r.method = "OPTIONS" THEN PreflightResponse
    ELSE IF r.method = "GET" THEN DocumentationResponse
    ELSE IF r.method = "POST"
         THEN IF r.path # RelayPath THEN NotFoundResponse ELSE NoResponse
    ELSE MethodNotAllowedResponse

------------------------------------------------------------------------------
\* Upstream events and their frames

Absent == "absent"

\* Events as the upstream client yields them: parsed JSON objects with a
\* `type` and, for the delta kinds, a `delta`.
Events ==
    {[type |-> "response.output_text.delta", delta |-> "hi"],
     [type |-> "response.function_call_arguments.delta", delta |-> "{"],
     [type |-> "response.output_item.added", delta |-> Absent],
     [type |-> "response.output_item.done", delta |-> Absent],
     [type |-> "error", delta |-> Absent],
     [type |-> "response.completed", delta |-> Absent]}

\* JSON.stringify of an event: the members in order, an absent member left out.
StringifyEvent(e) ==
    <<"{", "type", ":", e.type>>
    \o (IF e.delta = Absent THEN << >> ELSE <<",", "delta", ":", e.delta>>)
    \o <<"}">>

\* Defective variant of Reframe: the envelope carries a summary of the event
\* (its kind only) instead of the whole event.
ReframeSummary(event) ==
    [event |-> event.type, data |-> [type |-> event.type, delta |-> Absent]]

\* { event: event.type, data: event }
Reframe(event) == [event |-> event.type, data |-> event]

\* JSON.stringify of the envelope.
StringifyEnvelope(env) ==
    <<"{", "event", ":", env.event, ",", "data", ":">>
    \o StringifyEvent(env.data) \o <<"}">>

\* `data: ${data}\n\n`
Frame(event) == <<"data: ">> \o StringifyEnvelope(Reframe(event)) \o <<"\n\n">>

\* The frames of a sequence of events.
Frames(evs) == [i \in 1..Len(evs) |-> Frame(evs[i])]

\* What a client does with a frame: strip the `data: ` prefix and the
\* delimiter and parse the JSON text back into an envelope.
ParseEvent(toks) ==
    [type |-> toks[4],
     delta |-> IF Len(toks) >= 8 /\ toks[6] = "delta" THEN toks[8] ELSE Absent]

ParseFrame(f) ==
    LET json == SubSeq(f, 2, Len(f) - 1)
    IN  [event |-> json[4],
         data |-> ParseEvent(SubSeq(json, 8, Len(json) - 1))]

------------------------------------------------------------------------------
\* Upstream scripts: the events the provider yields, and how the sequence
\* ends: "done" (exhausted), "fault" (the iterator throws) or "hang" (the
\* provider never completes).

Endings == {"done", "fault", "hang"}

EventSeqs == UNION {[1..n -> Events] : n \in 0..MaxEvents}

NoScript == [events |-> << >>, ending |-> "hang"]

\* Defective variant of NextEvent: an iterator that restarts on every pull
\* and so yields its first event again.
NextEventRestarts(sc, n) == sc.events[1]

\* The event the async iterator yields after n events have been pulled: the
\* sequence is single-pass, each pull takes the next event.
NextEvent(sc, n) == sc.events[n + 1]

------------------------------------------------------------------------------
\* The outward stream (ReadableStream with a default controller)

NoStream ==
    [state |-> "none", queue |-> << >>, closeRequested |-> FALSE,
     readPending |-> FALSE]

NewStream ==
    [state |-> "readable", queue |-> << >>, closeRequested |-> FALSE,
     readPending |-> FALSE]

\* ReadableStreamDefaultControllerCanCloseOrEnqueue
CanCloseOrEnqueue(st) == ~st.closeRequested /\ st.state = "readable"

\* controller.enqueue(chunk) when it does not throw: a pending read takes the
\* chunk at once, otherwise the chunk joins the queue.
ControllerEnqueue(st, chunk) ==
    IF st.readPending
    THEN [st EXCEPT !.readPending = FALSE]
    ELSE [st EXCEPT !.queue = Append(@, chunk)]

\* Defective variant of ControllerClose: closing discards the chunks still
\* queued.
ControllerCloseDropsQueue(st) ==
    [st EXCEPT !.closeRequested = TRUE, !.state = "closed", !.queue = << >>,
               !.readPending = FALSE]

\* controller.close() when it does not throw: the stream closes once the
\* queue is empty.
ControllerClose(st) ==
    IF st.queue = << >>
    THEN [st EXCEPT !.closeRequested = TRUE, !.state = "closed",
                    !.readPending = FALSE]
    ELSE [st EXCEPT !.closeRequested = TRUE]

\* Defective variant of ControllerError: the catch closes the stream instead
\* of erroring it.
ControllerErrorCloses(st) ==
    IF st.state # "readable" THEN st
    ELSE [st EXCEPT !.queue = << >>, !.state = "closed",
                    !.readPending = FALSE]

\* controller.error(e): nothing unless the stream is readable; otherwise the
\* queue is reset and the stream is errored.
ControllerError(st) ==
    IF st.state # "readable" THEN st
    ELSE [st EXCEPT !.queue = << >>, !.state = "errored",
                    !.readPending = FALSE]

\* Defective variant of StreamCancel: a disconnect leaves the stream as it is.
StreamCancelIgnored(st) == st

\* reader.cancel(): nothing unless the stream is readable; otherwise the
\* stream is closed and the queue is reset.
StreamCancel(st) ==
    IF st.state # "readable" THEN st
    ELSE [st EXCEPT !.queue = << >>, !.state = "closed",
                    !.readPending = FALSE]

------------------------------------------------------------------------------
\* The model identifier of config/constants.ts.
MODEL == "gpt-4.1-nano-2025-04-14"

\* Defective variant of ParseOk: text that is not JSON is taken as an empty
\* object instead of throwing.
ParseOkLenient(body) == body.kind # "null"

\* request.json() resolves and `const { messages, tools } = requestData` does
\* not throw: the text is JSON and its value can be destructured.
ParseOk(body) == body.kind = "object"

\* A sequence without the repetitions of its elements.
Dedup(seq) ==
    SelectSeq([i \in 1..Len(seq) |->
                  IF \E j \in 1..(i - 1) : seq[j] = seq[i]
                  THEN "" ELSE seq[i]],
              LAMBDA x : x # "")

\* Defective variant of CreateArgs: repeated messages are sent once.
CreateArgsDedup(body) ==
    [model |-> MODEL, hasInput |-> body.hasMessages,
     input |-> Dedup(body.messages), hasTools |-> body.hasTools,
     tools |-> body.tools, stream |-> TRUE, parallel_tool_calls |-> FALSE]

\* The argument of openai.responses.create: messages and tools as destructured
\* from the body (undefined when the body has no such field).
CreateArgs(body) ==
    [model |-> MODEL, hasInput |-> body.hasMessages, input |-> body.messages,
     hasTools |-> body.hasTools, tools |-> body.tools, stream |-> TRUE,
     parallel_tool_calls |-> FALSE]

------------------------------------------------------------------------------
VARIABLES
    req,        \* req[s]: the inbound request of session s
    pc,         \* pc[s]: where the handler of session s stands
    bodyRead,   \* bodyRead[s]: request.json() has been called
    resp,       \* resp[s]: the response returned by fetch
    calls,      \* calls[s]: the arguments of each openai.responses.create call
    handshake,  \* handshake[s]: "none", "pending", "rejected" or "open"
    script,     \* script[s]: what the upstream sequence yields
    consumed,   \* consumed[s]: number of upstream events pulled by the loop
    stream,     \* stream[s]: the outward ReadableStream
    written,    \* written[s]: the chunks controller.enqueue accepted
    caught,     \* caught[s]: what the catch of start() caught
    delivered,  \* delivered[s]: the chunks the client has received
    client      \* client[s]: "open", "closed", "errored" or "gone"

vars == <<req, pc, bodyRead, resp, calls, handshake, script, consumed, stream,
          written, caught, delivered, client>>

InitSession(r) == [s \in Sessions |-> IF s = 1 THEN r ELSE NoRequest]

\* One request has arrived, for session 1; nothing has run yet.
Init ==
    /\ \E r \in Requests : req = InitSession(r)
    /\ pc = [s \in Sessions |-> IF s = 1 THEN "received" ELSE "idle"]
    /\ bodyRead = [s \in Sessions |-> FALSE]
    /\ resp = [s \in Sessions |-> NoResponse]
    /\ calls = [s \in Sessions |-> << >>]
    /\ handshake = [s \in Sessions |-> "none"]
    /\ script = [s \in Sessions |-> NoScript]
    /\ consumed = [s \in Sessions |-> 0]
    /\ stream = [s \in Sessions |-> NoStream]
    /\ written = [s \in Sessions |-> << >>]
    /\ caught = [s \in Sessions |-> "none"]
    /\ delivered = [s \in Sessions |-> << >>]
    /\ client = [s \in Sessions |-> "open"]

\* fetch up to its first await: OPTIONS, GET, 404 and 405 are answered here;
\* a POST to the relay route calls request.json() and awaits it.
Route(s) ==
    /\ pc[s] = "received"
    /\ LET r == RouteResponse(req[s])
       IN  IF r = NoResponse
           THEN /\ pc' = [pc EXCEPT ![s] = "parsing"]
                /\ bodyRead' = [bodyRead EXCEPT ![s] = TRUE]
                /\ resp' = resp
           ELSE /\ pc' = [pc EXCEPT ![s] = "responded"]
                /\ resp' = [resp EXCEPT ![s] = r]
                /\ bodyRead' = bodyRead
    /\ UNCHANGED <<req, calls, handshake, script, consumed, stream, written,
                   caught, delivered, client>>

\* request.json() settles.  A body that is not JSON, or null, throws into the
\* handler's catch: 500.  Otherwise the upstream call is issued and awaited.
ParseBody(s) ==
    /\ pc[s] = "parsing"
    /\ IF ParseOk(req[s].body)
       THEN /\ calls' = [calls EXCEPT ![s] = Append(@, CreateArgs(req[s].body))]
            /\ handshake' = [handshake EXCEPT ![s] = "pending"]
            /\ pc' = [pc EXCEPT ![s] = "handshake"]
            /\ resp' = resp
       ELSE /\ resp' = [resp EXCEPT ![s] = ErrorResponse]
            /\ pc' = [pc EXCEPT ![s] = "responded"]
            /\ UNCHANGED <<calls, handshake>>
    /\ UNCHANGED <<req, bodyRead, script, consumed, stream, written, caught,
                   delivered, client>>

\* Defective variant of HandshakeFail: a rejected upstream call is issued a
\* second time before the handler gives up.
HandshakeFailRetries(s) ==
    /\ pc[s] = "handshake"
    /\ IF Len(calls[s]) < 2
       THEN /\ calls' = [calls EXCEPT ![s] = Append(@, CreateArgs(req[s].body))]
            /\ UNCHANGED <<handshake, resp, pc>>
       ELSE /\ handshake' = [handshake EXCEPT ![s] = "rejected"]
            /\ resp' = [resp EXCEPT ![s] = ErrorResponse]
            /\ pc' = [pc EXCEPT ![s] = "responded"]
            /\ calls' = calls
    /\ UNCHANGED <<req, bodyRead, script, consumed, stream, written, caught,
                   delivered, client>>

\* openai.responses.create rejects (handshake or authentication failure):
\* the handler's catch answers 500.
HandshakeFail(s) ==
    /\ pc[s] = "handshake"
    /\ handshake' = [handshake EXCEPT ![s] = "rejected"]
    /\ resp' = [resp EXCEPT ![s] = ErrorResponse]
    /\ pc' = [pc EXCEPT ![s] = "responded"]
    /\ UNCHANGED <<req, bodyRead, calls, script, consumed, stream, written,
                   caught, delivered, client>>

\* Defective variant of HandshakeOk: the stream is constructed and the
\* response returned only once the first upstream event has arrived, and that
\* event is written at once.
HandshakeOkAfterFirstEvent(s) ==
    /\ pc[s] = "handshake"
    /\ \E evs \in EventSeqs, en \in Endings :
          /\ script' = [script EXCEPT ![s] = [events |-> evs, ending |-> en]]
          /\ IF evs = << >>
             THEN /\ stream' = [stream EXCEPT ![s] = NewStream]
                  /\ UNCHANGED <<consumed, written>>
             ELSE /\ stream' = [stream EXCEPT ![s] =
                                   ControllerEnqueue(NewStream, Frame(evs[1]))]
                  /\ consumed' = [consumed EXCEPT ![s] = 1]
                  /\ written' = [written EXCEPT ![s] = <<Frame(evs[1])>>]
    /\ handshake' = [handshake EXCEPT ![s] = "open"]
    /\ resp' = [resp EXCEPT ![s] = StreamResponse]
    /\ pc' = [pc EXCEPT ![s] = "streaming"]
    /\ UNCHANGED <<req, bodyRead, calls, caught, delivered, client>>

\* openai.responses.create resolves with the event sequence.  The stream is
\* constructed, start() runs up to its first await (the first pull of the
\* for-await loop) and the 200 response is returned.
HandshakeOk(s) ==
    /\ pc[s] = "handshake"
    /\ \E evs \in EventSeqs, en \in Endings :
          script' = [script EXCEPT ![s] = [events |-> evs, ending |-> en]]
    /\ handshake' = [handshake EXCEPT ![s] = "open"]
    /\ stream' = [stream EXCEPT ![s] = NewStream]
    /\ resp' = [resp EXCEPT ![s] = StreamResponse]
    /\ pc' = [pc EXCEPT ![s] = "streaming"]
    /\ UNCHANGED <<req, bodyRead, calls, consumed, written, caught, delivered,
                   client>>

\* What a client with a pending read sees when the stream changes state.
Notify(old, new, c) ==
    IF old.readPending /\ new.state = "closed" THEN "closed"
    ELSE IF old.readPending /\ new.state = "errored" THEN "errored"
    ELSE c

\* Defective variant of RelayEvent: the event sequence is kept in one place
\* for all sessions, so every pull, of any session, advances the same
\* iterator.
RelayEventSharedIterator(s) ==
    LET o == CHOOSE x \in Sessions : x # s
        n == consumed[s] + consumed[o]
    IN  /\ pc[s] = "streaming"
        /\ n < Len(script[s].events)
        /\ CanCloseOrEnqueue(stream[s])
        /\ consumed' = [consumed EXCEPT ![s] = @ + 1]
        /\ stream' = [stream EXCEPT ![s] =
                         ControllerEnqueue(@, Frame(script[s].events[n + 1]))]
        /\ written' = [written EXCEPT ![s] =
                          Append(@, Frame(script[s].events[n + 1]))]
        /\ delivered' = [delivered EXCEPT ![s] =
                            IF stream[s].readPending
                            THEN Append(@, Frame(script[s].events[n + 1]))
                            ELSE @]
        /\ UNCHANGED <<req, pc, bodyRead, resp, calls, handshake, script,
                       caught, client>>

\* Defective variant of RelayEvent: the try/catch sits inside the loop body,
\* so after a failed enqueue the loop goes on pulling events.
RelayEventCatchInsideLoop(s) ==
    /\ pc[s] \in {"streaming", "errored"}
    /\ consumed[s] < Len(script[s].events)
    /\ consumed' = [consumed EXCEPT ![s] = @ + 1]
    /\ LET chunk == Frame(NextEvent(script[s], consumed[s]))
       IN  IF CanCloseOrEnqueue(stream[s])
           THEN /\ stream' = [stream EXCEPT ![s] = ControllerEnqueue(@, chunk)]
                /\ written' = [written EXCEPT ![s] = Append(@, chunk)]
                /\ delivered' = [delivered EXCEPT ![s] =
                                    IF stream[s].readPending
                                    THEN Append(@, chunk) ELSE @]
                /\ UNCHANGED <<pc, caught>>
           ELSE /\ stream' = [stream EXCEPT ![s] = ControllerError(@)]
                /\ caught' = [caught EXCEPT ![s] = "enqueue"]
                /\ pc' = [pc EXCEPT ![s] = "errored"]
                /\ UNCHANGED <<written, delivered>>
    /\ UNCHANGED <<req, bodyRead, resp, calls, handshake, script, client>>

\* One iteration of the for-await loop: the upstream yields its next event,
\* the event is reframed and enqueued.  When enqueue throws (the stream is no
\* longer readable) the catch runs controller.error and start() ends.
RelayEvent(s) ==
    /\ pc[s] = "streaming"
    /\ consumed[s] < Len(script[s].events)
    /\ consumed' = [consumed EXCEPT ![s] = @ + 1]
    /\ LET chunk == Frame(NextEvent(script[s], consumed[s]))
       IN  IF CanCloseOrEnqueue(stream[s])
           THEN /\ stream' = [stream EXCEPT ![s] = ControllerEnqueue(@, chunk)]
                /\ written' = [written EXCEPT ![s] = Append(@, chunk)]
                /\ delivered' = [delivered EXCEPT ![s] =
                                    IF stream[s].readPending
                                    THEN Append(@, chunk) ELSE @]
                /\ UNCHANGED <<pc, caught>>
           ELSE /\ stream' = [stream EXCEPT ![s] = ControllerError(@)]
                /\ caught' = [caught EXCEPT ![s] = "enqueue"]
                /\ pc' = [pc EXCEPT ![s] = "errored"]
                /\ UNCHANGED <<written, delivered>>
    /\ UNCHANGED <<req, bodyRead, resp, calls, handshake, script, client>>

\* Defective variant of RelayDone: the relay gives up on an upstream that has
\* stopped yielding and closes the transport, as a timeout would.
RelayDoneTimeout(s) ==
    /\ pc[s] = "streaming"
    /\ consumed[s] = Len(script[s].events)
    /\ script[s].ending \in {"done", "hang"}
    /\ IF CanCloseOrEnqueue(stream[s])
       THEN /\ stream' = [stream EXCEPT ![s] = ControllerClose(@)]
            /\ pc' = [pc EXCEPT ![s] = "completed"]
            /\ caught' = caught
       ELSE /\ stream' = [stream EXCEPT ![s] = ControllerError(@)]
            /\ caught' = [caught EXCEPT ![s] = "close"]
            /\ pc' = [pc EXCEPT ![s] = "errored"]
    /\ client' = [client EXCEPT ![s] = Notify(stream[s], stream'[s], @)]
    /\ UNCHANGED <<req, bodyRead, resp, calls, handshake, script, consumed,
                   written, delivered>>

\* The upstream sequence is exhausted: controller.close().  When close throws
\* (the stream is no longer readable) the catch runs controller.error.
RelayDone(s) ==
    /\ pc[s] = "streaming"
    /\ consumed[s] = Len(script[s].events)
    /\ script[s].ending = "done"
    /\ IF CanCloseOrEnqueue(stream[s])
       THEN /\ stream' = [stream EXCEPT ![s] = ControllerClose(@)]
            /\ pc' = [pc EXCEPT ![s] = "completed"]
            /\ caught' = caught
       ELSE /\ stream' = [stream EXCEPT ![s] = ControllerError(@)]
            /\ caught' = [caught EXCEPT ![s] = "close"]
            /\ pc' = [pc EXCEPT ![s] = "errored"]
    /\ client' = [client EXCEPT ![s] = Notify(stream[s], stream'[s], @)]
    /\ UNCHANGED <<req, bodyRead, resp, calls, handshake, script, consumed,
                   written, delivered>>

\* The upstream iterator throws: the catch logs and runs controller.error.
RelayFault(s) ==
    /\ pc[s] = "streaming"
    /\ consumed[s] = Len(script[s].events)
    /\ script[s].ending = "fault"
    /\ stream' = [stream EXCEPT ![s] = ControllerError(@)]
    /\ caught' = [caught EXCEPT ![s] = "upstream"]
    /\ pc' = [pc EXCEPT ![s] = "errored"]
    /\ client' = [client EXCEPT ![s] = Notify(stream[s], stream'[s], @)]
    /\ UNCHANGED <<req, bodyRead, resp, calls, handshake, script, consumed,
                   written, delivered>>

\* The client (the runtime pumping the response body) reads: it takes the
\* head of the queue, or waits when the queue is empty, or learns that the
\* stream is closed or errored.
ClientRead(s) ==
    /\ client[s] = "open"
    /\ stream[s].state # "none"
    /\ ~stream[s].readPending
    /\ LET st == stream[s]
       IN  IF st.state = "readable"
           THEN IF st.queue # << >>
                THEN /\ delivered' = [delivered EXCEPT ![s] =
                                         Append(@, Head(st.queue))]
                     /\ stream' = [stream EXCEPT ![s] =
                           [st EXCEPT !.queue = Tail(@),
                                      !.state = IF st.closeRequested
                                                   /\ Tail(st.queue) = << >>
                                                THEN "closed" ELSE @]]
                     /\ client' = client
                ELSE /\ stream' = [stream EXCEPT ![s].readPending = TRUE]
                     /\ UNCHANGED <<delivered, client>>
           ELSE /\ client' = [client EXCEPT ![s] = st.state]
                /\ UNCHANGED <<delivered, stream>>
    /\ UNCHANGED <<req, pc, bodyRead, resp, calls, handshake, script,
                   consumed, written, caught>>

\* The client disconnects: the body stream is cancelled.
ClientCancel(s) ==
    /\ client[s] = "open"
    /\ stream[s].state # "none"
    /\ client' = [client EXCEPT ![s] = "gone"]
    /\ stream' = [stream EXCEPT ![s] = StreamCancel(@)]
    /\ UNCHANGED <<req, pc, bodyRead, resp, calls, handshake, script,
                   consumed, written, caught, delivered>>

Next ==
    \E s \in Sessions :
        \/ Route(s)
        \/ ParseBody(s)
        \/ HandshakeFail(s)
        \/ HandshakeOk(s)
        \/ RelayEvent(s)
        \/ RelayDone(s)
        \/ RelayFault(s)
        \/ ClientRead(s)
        \/ ClientCancel(s)

Spec == Init /\ [][Next]_vars

\* The session state of the relay's state machine, read off the position of
\* start(): in the loop with nothing written yet, in the loop with a frame
\* written, past controller.close(), or past the catch.
SessionState(s) ==
    IF pc[s] = "streaming"
    THEN IF written[s] = << >> THEN "OPENING" ELSE "STREAMING"
    ELSE IF pc[s] = "completed" THEN "COMPLETED"
    ELSE IF pc[s] = "errored" THEN "ERRORED"
    ELSE "NONE"

TypeOK ==
    \A s \in Sessions :
        /\ req[s] \in Requests \cup {NoRequest}
        /\ pc[s] \in {"idle", "received", "parsing", "handshake", "responded",
                      "streaming", "completed", "errored"}
        /\ stream[s].state \in {"none", "readable", "closed", "errored"}
        /\ client[s] \in {"open", "closed", "errored", "gone"}
        /\ consumed[s] <= Len(script[s].events)
        /\ Len(calls[s]) <= 1

------------------------------------------------------------------------------
\* Properties

IsPrefix(a, b) == Len(a) <= Len(b) /\ a = SubSeq(b, 1, Len(a))

\* The upstream events the loop has pulled so far.
Consumed(s) == SubSeq(script[s].events, 1, consumed[s])

\* The relay route was requested in session s.
RelayRequest(s) == req[s].method = "POST" /\ req[s].path = RelayPath

\* C1 as stated: at every point the frames written are exactly the frames of
\* the upstream events consumed so far, one frame per consumed event, in order.
C1_OneFramePerConsumedEvent ==
    \A s \in Sessions : written[s] = Frames(Consumed(s))

\* C1 amended: at every point the frames written are the frames of a prefix of
\* the upstream events, in order, with none reordered, duplicated, batched or
\* skipped, and the client receives them in that order; every consumed event
\* has its frame, except the one event pulled after the client cancelled the
\* outward stream, whose enqueue throws and which ends the loop.
C1_OrderPreserved ==
    \A s \in Sessions :
        /\ consumed[s] <= Len(script[s].events)
        /\ IsPrefix(written[s], Frames(Consumed(s)))
        /\ IsPrefix(delivered[s], written[s])
        /\ \/ Len(written[s]) = consumed[s]
           \/ /\ Len(written[s]) + 1 = consumed[s]
              /\ caught[s] = "enqueue"
              /\ client[s] = "gone"

\* C1 witness: two different upstream events have been consumed and written.
C1_Witness ==
    \E s \in Sessions :
        /\ Len(written[s]) = 2
        /\ consumed[s] = 2
        /\ script[s].events[1] # script[s].events[2]
        /\ Len(delivered[s]) = 2

\* C2 as stated: when the upstream yields k events and then faults, a client
\* that sees the stream end in error has received exactly those k frames.
C2_FramesBeforeFaultDelivered ==
    \A s \in Sessions :
        (caught[s] = "upstream" /\ client[s] = "errored")
            => delivered[s] = Frames(script[s].events)

\* C3 as stated: after a fault of the upstream iteration no further frame has
\* been written, the outward transport is in the error state and the session
\* is ERRORED.
C3_FaultErrorsTransport ==
    \A s \in Sessions :
        caught[s] = "upstream"
            => /\ written[s] = Frames(script[s].events)
               /\ stream[s].state = "errored"
               /\ SessionState(s) = "ERRORED"

\* C3 amended: after a fault of the upstream iteration no further frame has
\* been written (no error envelope), the relay has not closed the transport
\* cleanly, the session is ERRORED, and the outward transport is in the error
\* state unless the client had cancelled it, in which case it stays closed.
C3_FaultEndsErrored ==
    \A s \in Sessions :
        caught[s] = "upstream"
            => /\ written[s] = Frames(script[s].events)
               /\ ~stream[s].closeRequested
               /\ SessionState(s) = "ERRORED"
               /\ \/ stream[s].state = "errored"
                  \/ stream[s].state = "closed" /\ client[s] = "gone"

\* C3 witness: the upstream faulted after a frame was written and the
\* transport is errored.
C3_Witness ==
    \E s \in Sessions :
        /\ caught[s] = "upstream"
        /\ Len(written[s]) >= 1
        /\ stream[s].state = "errored"
        /\ client[s] = "errored"

\* The loop of session s has seen the upstream sequence exhausted.
Exhausted(s) == pc[s] = "completed" \/ caught[s] = "close"

\* C4 as stated: once the upstream is exhausted without a fault, every event
\* has been written and nothing else, the transport has been closed cleanly
\* and the session is COMPLETED.
C4_ExhaustionCompletes ==
    \A s \in Sessions :
        Exhausted(s)
            => /\ written[s] = Frames(script[s].events)
               /\ stream[s].closeRequested
               /\ SessionState(s) = "COMPLETED"

\* C4 amended: once the upstream is exhausted without a fault, every event has
\* been written and nothing else; the transport is closed cleanly, after the
\* last frame, and the session is COMPLETED, and a client that sees the clean
\* end has received every frame; unless the client cancelled the stream
\* first: then controller.close() throws and the session is ERRORED, the
\* transport staying closed by the cancel.
C4_ExhaustionClosesAfterLastFrame ==
    \A s \in Sessions :
        /\ Exhausted(s) => written[s] = Frames(script[s].events)
        /\ stream[s].closeRequested => pc[s] = "completed"
        /\ pc[s] = "completed"
              => /\ SessionState(s) = "COMPLETED"
                 /\ stream[s].closeRequested
                 /\ stream[s].state \in {"readable", "closed"}
                 /\ stream[s].state = "readable" <=> stream[s].queue # << >>
                 /\ client[s] # "errored"
                 /\ client[s] # "gone" => delivered[s] \o stream[s].queue = written[s]
                 /\ client[s] = "closed" => delivered[s] = written[s]
        /\ caught[s] = "close"
              => /\ SessionState(s) = "ERRORED"
                 /\ client[s] = "gone"
                 /\ stream[s].state = "closed"
                 /\ ~stream[s].closeRequested

\* C4 witness: the upstream was exhausted after two events, the transport is
\* closed and the client has seen the clean end.
C4_Witness ==
    \E s \in Sessions :
        /\ pc[s] = "completed"
        /\ Len(written[s]) = 2
        /\ stream[s].state = "closed"
        /\ client[s] = "closed"

\* The handler of session s has returned its response.
Responded(s) == resp[s] # NoResponse

\* C5: a POST to the relay route whose body is not JSON, or whose upstream
\* handshake fails, is answered by a 500 with a JSON error body; no 200
\* event-stream response is returned, no outward stream exists, no frame is
\* written and no upstream event is yielded.
C5_PreStreamFailureIs500 ==
    \A s \in Sessions :
        (RelayRequest(s) /\ pc[s] \notin {"idle", "received", "parsing"}
           /\ (req[s].body.kind = "invalid" \/ handshake[s] = "rejected"))
            => /\ pc[s] = "responded"
               /\ resp[s].status = 500
               /\ resp[s].contentType = "application/json"
               /\ resp[s].body = "error json"
               /\ stream[s] = NoStream
               /\ written[s] = << >>
               /\ delivered[s] = << >>
               /\ consumed[s] = 0
               /\ script[s] = NoScript
               /\ req[s].body.kind = "invalid" => calls[s] = << >>

\* C5 witness: the upstream handshake of a relay request was rejected and the
\* 500 response was returned.
C5_Witness ==
    \E s \in Sessions :
        /\ RelayRequest(s)
        /\ handshake[s] = "rejected"
        /\ Len(calls[s]) = 1
        /\ resp[s].status = 500

\* C6: a POST to the relay route whose body is a JSON object without a
\* `messages` field is answered by a 500 with a JSON error body and never by
\* a 200 event-stream response.
C6_MissingMessagesIs500 ==
    \A s \in Sessions :
        (RelayRequest(s) /\ req[s].body.kind = "object"
           /\ ~req[s].body.hasMessages /\ Responded(s))
            => /\ resp[s].status = 500
               /\ resp[s].contentType = "application/json"
               /\ stream[s] = NoStream

\* C7: every response the gateway returns carries the three CORS headers.
C7_EveryResponseHasCors ==
    \A s \in Sessions :
        Responded(s) => resp[s].cors = corsHeaders

\* C8: the status is decided by method and path before any body is read: GET
\* on any path is answered 200 text/html, POST to a path other than the relay
\* route 404, a method other than OPTIONS, GET and POST 405; none of these
\* reads the body, issues the upstream call or opens a relay session.
C8_StatusByMethodAndPath ==
    \A s \in Sessions :
        (pc[s] \notin {"idle", "received"} /\ ~RelayRequest(s)
           /\ req[s].method # "OPTIONS")
            => /\ pc[s] = "responded"
               /\ req[s].method = "GET"
                     => resp[s].status = 200 /\ resp[s].contentType = "text/html"
               /\ req[s].method = "POST" => resp[s].status = 404
               /\ req[s].method \notin {"GET", "POST"} => resp[s].status = 405
               /\ ~bodyRead[s]
               /\ calls[s] = << >>
               /\ handshake[s] = "none"
               /\ stream[s] = NoStream
               /\ SessionState(s) = "NONE"

\* C8 witness: a POST to another path, with a well-formed body, was answered
\* 404.
C8_Witness ==
    \E s \in Sessions :
        /\ req[s].method = "POST"
        /\ req[s].path = "/api/unknown"
        /\ req[s].body.hasMessages
        /\ resp[s].status = 404

\* C9 as stated: an OPTIONS request on any path is answered with status 204,
\* the CORS headers and an empty body.
C9_PreflightIs204 ==
    \A s \in Sessions :
        (req[s].method = "OPTIONS" /\ pc[s] \notin {"idle", "received"})
            => /\ resp[s].status = 204
               /\ resp[s].cors = corsHeaders
               /\ resp[s].body = "null"

\* C9 amended: an OPTIONS request on any path is answered with status 200
\* (the default status of a Response built without one), the CORS headers and
\* an empty body, without the body of the request being read.
C9_PreflightIs200 ==
    \A s \in Sessions :
        (req[s].method = "OPTIONS" /\ pc[s] \notin {"idle", "received"})
            => /\ pc[s] = "responded"
               /\ resp[s].status = 200
               /\ resp[s].cors = corsHeaders
               /\ resp[s].body = "null"
               /\ ~bodyRead[s]
               /\ stream[s] = NoStream

\* C9 witness: an OPTIONS request on the relay route was answered.
C9_Witness ==
    \E s \in Sessions :
        /\ req[s].method = "OPTIONS"
        /\ req[s].path = RelayPath
        /\ Responded(s)

\* C10: every frame written is `data: `, the JSON text of an envelope and the
\* delimiter, and parsing it gives back an envelope whose event is the kind of
\* the upstream event at that position and whose data is that whole event,
\* for every kind of event.
C10_FrameRoundTrip ==
    \A s \in Sessions :
        \A i \in 1..Len(written[s]) :
            /\ Head(written[s][i]) = "data: "
            /\ written[s][i][Len(written[s][i])] = "\n\n"
            /\ ParseFrame(written[s][i]).event = script[s].events[i].type
            /\ ParseFrame(written[s][i]).data = script[s].events[i]

\* C10 witness: a text delta and a stream-error event have both been written
\* and delivered.
C10_Witness ==
    \E s \in Sessions :
        /\ Len(delivered[s]) = 2
        /\ ParseFrame(delivered[s][1]).data.type = "response.output_text.delta"
        /\ ParseFrame(delivered[s][1]).data.delta = "hi"
        /\ ParseFrame(delivered[s][2]).event = "error"

------------------------------------------------------------------------------
\* Two sessions against a deterministic upstream

\* The requests of the two-session runs: POSTs to the relay route.
PairBodies ==
    {b \in Bodies : b.kind = "object" /\ b.hasMessages /\ ~b.hasTools
                    /\ b.messages # << >>}

PairRequests == [method : {"POST"}, path : {RelayPath}, body : PairBodies]

\* The events the upstream stub draws its sequences from.
PairEvents == {e \in Events : e.type \in {"response.output_text.delta", "error"}}

\* The same request has arrived twice; nothing has run yet.
InitPair ==
    /\ \E r \in PairRequests : req = [s \in Sessions |-> r]
    /\ pc = [s \in Sessions |-> "received"]
    /\ bodyRead = [s \in Sessions |-> FALSE]
    /\ resp = [s \in Sessions |-> NoResponse]
    /\ calls = [s \in Sessions |-> << >>]
    /\ handshake = [s \in Sessions |-> "none"]
    /\ script = [s \in Sessions |-> NoScript]
    /\ consumed = [s \in Sessions |-> 0]
    /\ stream = [s \in Sessions |-> NoStream]
    /\ written = [s \in Sessions |-> << >>]
    /\ caught = [s \in Sessions |-> "none"]
    /\ delivered = [s \in Sessions |-> << >>]
    /\ client = [s \in Sessions |-> "open"]

\* The upstream is deterministic: two calls with the same arguments have the
\* same outcome, the same events and the same ending.
Deterministic ==
    \A a \in Sessions, b \in Sessions :
        (calls[a] # << >> /\ calls[a] = calls[b]
           /\ handshake[a] \in {"open", "rejected"}
           /\ handshake[b] \in {"open", "rejected"})
            => handshake[a] = handshake[b] /\ script[a] = script[b]

\* The handshake of session s settles as the deterministic upstream decides.
HandshakeStub(s) ==
    /\ HandshakeOk(s) \/ HandshakeFail(s)
    /\ \A i \in 1..Len(script'[s].events) : script'[s].events[i] \in PairEvents
    /\ Deterministic'

NextPair ==
    \E s \in Sessions :
        \/ Route(s)
        \/ ParseBody(s)
        \/ HandshakeStub(s)
        \/ RelayEvent(s)
        \/ RelayDone(s)
        \/ RelayFault(s)
        \/ ClientRead(s)
        \/ ClientCancel(s)

SpecPair == InitPair /\ [][NextPair]_vars

\* The loop of session s has seen the end of its upstream sequence.
SawUpstreamEnd(s) == Exhausted(s) \/ caught[s] = "upstream"

\* C11: the frames a session writes are the frames of a prefix of its own
\* upstream sequence whatever the other session does, and two sessions with
\* the same request against the deterministic upstream get the same answer and
\* write the same frames: at every point one outward sequence is a prefix of
\* the other, and they are identical once both loops have seen the upstream
\* end, however the steps of the two sessions interleave.
C11_SessionsIsolated ==
    \A a \in Sessions, b \in Sessions :
        /\ IsPrefix(written[a], Frames(script[a].events))
        /\ Len(calls[a]) <= 1
        /\ calls[a] # << >> => calls[a][1] = CreateArgs(req[a].body)
        /\ req[a] = req[b]
              => /\ IsPrefix(written[a], written[b])
                    \/ IsPrefix(written[b], written[a])
                 /\ (Responded(a) /\ Responded(b)) => resp[a] = resp[b]
                 /\ (SawUpstreamEnd(a) /\ SawUpstreamEnd(b))
                       => written[a] = written[b]

\* C11 witness: two sessions with the same request have both run to the end
\* of an upstream of two different events and have written the same frames.
C11_Witness ==
    /\ req[1] = req[2]
    /\ pc[1] = "completed"
    /\ pc[2] = "completed"
    /\ Len(written[1]) = 2
    /\ written[1] = written[2]
    /\ written[1][1] # written[1][2]

------------------------------------------------------------------------------
\* Backpressure, terminal states and the state machine

\* The high-water mark of the stream: new ReadableStream is given no queuing
\* strategy, so the default of 1 chunk applies.
HighWaterMark == 1

\* C12: the relay suspends consumption of the upstream when the client does
\* not read, so the frames written and not yet taken by the client never
\* exceed the high-water mark of the outward stream.
C12_QueueBounded ==
    \A s \in Sessions : Len(stream[s].queue) <= HighWaterMark

Terminal(s) == pc[s] \in {"completed", "errored"}

\* What C13 says of every state.
C13_State ==
    \A s \in Sessions :
        /\ Terminal(s) <=> SessionState(s) \in {"COMPLETED", "ERRORED"}
        /\ stream[s].closeRequested => pc[s] = "completed" /\ caught[s] = "none"
        /\ stream[s].closeRequested => stream[s].state # "errored"
        /\ caught[s] # "none" <=> pc[s] = "errored"

\* What C13 says of every step.
C13_Step ==
    \A s \in Sessions :
        Terminal(s)
            => /\ pc'[s] = pc[s]
               /\ written'[s] = written[s]
               /\ consumed'[s] = consumed[s]
               /\ caught'[s] = caught[s]
               /\ stream'[s].closeRequested = stream[s].closeRequested
               /\ stream[s].state \in {"closed", "errored"}
                     => stream'[s].state = stream[s].state
               /\ Len(stream'[s].queue) <= Len(stream[s].queue)

\* C13: COMPLETED and ERRORED are absorbing: once start() has closed the
\* transport or run its catch, the session never leaves that state, no frame
\* is written and no event is pulled, a closed or errored transport keeps its
\* state, and the transport is never both closed by the relay and errored.
C13_TerminalAbsorbing == [](C13_State) /\ [][C13_Step]_vars

\* C13 witness: a session is ERRORED while its upstream still has an event to
\* yield.
C13_Witness ==
    \E s \in Sessions :
        /\ SessionState(s) = "ERRORED"
        /\ consumed[s] < Len(script[s].events)
        /\ stream[s].state = "closed"

\* C14 as stated: a session enters COMPLETED or ERRORED only from STREAMING,
\* that is after at least one frame has been written.
C14_TerminalOnlyAfterFrame ==
    \A s \in Sessions : Terminal(s) => written[s] # << >>

\* The session states a session can be in after one step.
SessionSuccessors(st) ==
    IF st = "NONE" THEN {"NONE", "OPENING"}
    ELSE IF st = "OPENING" THEN {"OPENING", "STREAMING", "COMPLETED", "ERRORED"}
    ELSE IF st = "STREAMING" THEN {"STREAMING", "COMPLETED", "ERRORED"}
    ELSE {st}

\* C14 amended: every session follows OPENING -> STREAMING -> {COMPLETED |
\* ERRORED}, starting in OPENING with no frame written and entering STREAMING
\* when the first frame is written, except that it also enters COMPLETED or
\* ERRORED straight from OPENING when the upstream ends or faults, or a write
\* fails, before any frame has been written.
C14_StateMachine ==
    /\ [](\A s \in Sessions :
            /\ SessionState(s) = "OPENING" => written[s] = << >>
            /\ SessionState(s) = "STREAMING" => written[s] # << >>
            /\ SessionState(s) = "NONE" <=> stream[s] = NoStream)
    /\ [][\A s \in Sessions :
            SessionState(s)' \in SessionSuccessors(SessionState(s))]_vars

\* C14 witness: a session has completed without having written a frame.
C14_Witness ==
    \E s \in Sessions :
        /\ pc[s] = "completed"
        /\ written[s] = << >>
        /\ client[s] = "closed"

------------------------------------------------------------------------------
\* Disconnect, termination and the opening of the transport

\* C15 as stated: when the write that follows a client disconnect fails, the
\* session ends ERRORED with the outward transport in the error state.
C15_DisconnectErrorsTransport ==
    \A s \in Sessions :
        caught[s] = "enqueue"
            => /\ SessionState(s) = "ERRORED"
               /\ stream[s].state = "errored"

\* What the amended C15 says of every state.
C15_State ==
    \A s \in Sessions :
        /\ caught[s] = "enqueue"
              => /\ client[s] = "gone"
                 /\ SessionState(s) = "ERRORED"
                 /\ stream[s].state = "closed"
                 /\ ~stream[s].closeRequested
        /\ client[s] = "gone"
              => /\ stream[s].state \in {"closed", "errored"}
                 /\ stream[s].queue = << >>
                 /\ stream[s].state = "errored" => caught[s] = "upstream"

\* What the amended C15 says of every step.
C15_Step ==
    \A s \in Sessions :
        client[s] = "gone"
            => /\ written'[s] = written[s]
               /\ delivered'[s] = delivered[s]
               /\ consumed'[s] # consumed[s]
                     => SessionState(s)' = "ERRORED" /\ caught'[s] = "enqueue"

\* C15 amended: after a client disconnect the relay's next write fails and is
\* handled by the same catch as an upstream fault: the session ends ERRORED
\* and no frame is written after the disconnect; but controller.error has no
\* effect on the cancelled stream, so the outward transport stays closed and
\* is not put in the error state.
C15_DisconnectEndsErrored == [](C15_State) /\ [][C15_Step]_vars

\* C15 witness: the client disconnected after a frame was written and the
\* next write failed.
C15_Witness ==
    \E s \in Sessions :
        /\ client[s] = "gone"
        /\ caught[s] = "enqueue"
        /\ Len(written[s]) >= 1

\* The event loop runs a continuation of start() that is ready to run: the
\* next event, the end or the fault of the upstream is eventually handled.
Fairness ==
    \A s \in Sessions :
        WF_vars(RelayEvent(s) \/ RelayDone(s) \/ RelayFault(s))

SpecFair == Init /\ [][Next]_vars /\ Fairness

\* What C16 says of every state: a terminal state is reached through
\* exhaustion, an upstream fault or a failed outward write only.
C16_State ==
    \A s \in Sessions :
        Terminal(s)
            => \/ /\ pc[s] = "completed"
                  /\ script[s].ending = "done"
                  /\ consumed[s] = Len(script[s].events)
               \/ /\ caught[s] = "upstream"
                  /\ script[s].ending = "fault"
                  /\ consumed[s] = Len(script[s].events)
               \/ /\ caught[s] \in {"enqueue", "close"}
                  /\ client[s] = "gone"

\* C16: the relay has no timeout and no cancel signal: a session reaches a
\* terminal state only through upstream exhaustion, an upstream fault or a
\* failed outward write; when the upstream completes or faults the session
\* eventually reaches COMPLETED or ERRORED; when it never does and the client
\* stays connected, the session stays open for ever.
C16_NoTimeout ==
    /\ [](C16_State)
    /\ \A s \in Sessions :
          (pc[s] = "streaming" /\ script[s].ending \in {"done", "fault"})
              ~> Terminal(s)
    /\ [][\A s \in Sessions :
            (pc[s] = "streaming" /\ script[s].ending = "hang"
               /\ client'[s] # "gone")
                => pc'[s] = "streaming"]_vars

\* C16 witness: the upstream has yielded its events and never completes; the
\* client is connected and waiting and the session is still open.
C16_Witness ==
    \E s \in Sessions :
        /\ pc[s] = "streaming"
        /\ script[s].ending = "hang"
        /\ consumed[s] = Len(script[s].events)
        /\ Len(delivered[s]) = 2
        /\ stream[s].readPending

\* What C17 says of every state.
C17_State ==
    \A s \in Sessions :
        /\ handshake[s] = "open" <=> resp[s].body = "stream"
        /\ resp[s].body = "stream"
              => /\ resp[s].status = 200
                 /\ resp[s].contentType = "text/event-stream"
                 /\ stream[s].state # "none"
        /\ resp[s].body # "stream"
              => consumed[s] = 0 /\ stream[s] = NoStream

\* What C17 says of the step that returns the streamed response.
C17_Step ==
    \A s \in Sessions :
        (resp[s] = NoResponse /\ resp'[s].body = "stream")
            => /\ calls[s] # << >>
               /\ consumed'[s] = 0
               /\ written'[s] = << >>
               /\ stream'[s] = NewStream
               /\ SessionState(s)' = "OPENING"

\* C17: the 200 text/event-stream response and its outward transport are
\* created once the upstream call has been issued and has resolved, before any
\* upstream event is consumed: the response is returned in state OPENING, also
\* when the upstream has not produced or never produces a first event.
C17_ResponseBeforeFirstEvent == [](C17_State) /\ [][C17_Step]_vars

\* C17 witness: the upstream never yields an event; the response has been
\* returned, the session is OPENING and the client waits for a first frame.
C17_Witness ==
    \E s \in Sessions :
        /\ script[s] = [events |-> << >>, ending |-> "hang"]
        /\ resp[s].status = 200
        /\ SessionState(s) = "OPENING"
        /\ stream[s].readPending

------------------------------------------------------------------------------
\* The upstream call

\* C18: the upstream call carries the request's messages and tools unchanged
\* (same elements, same order, none added, removed or deduplicated; absent
\* when the body has none), the model identifier, streaming enabled and
\* parallel tool calls disabled; every JSON object body, one with an empty
\* messages sequence included, is forwarded and not rejected by the relay.
C18_RequestForwardedUnchanged ==
    \A s \in Sessions :
        /\ \A i \in 1..Len(calls[s]) :
              /\ calls[s][i].model = MODEL
              /\ calls[s][i].hasInput = req[s].body.hasMessages
              /\ calls[s][i].input = req[s].body.messages
              /\ calls[s][i].hasTools = req[s].body.hasTools
              /\ calls[s][i].tools = req[s].body.tools
              /\ calls[s][i].stream
              /\ ~calls[s][i].parallel_tool_calls
        /\ (RelayRequest(s) /\ req[s].body.kind = "object"
              /\ pc[s] \notin {"idle", "received", "parsing"})
               => Len(calls[s]) = 1

\* C18 witness: a request with an empty messages sequence and a tool has been
\* forwarded and its stream opened.
C18_Witness ==
    \E s \in Sessions :
        /\ req[s].body.hasMessages
        /\ req[s].body.messages = << >>
        /\ Len(calls[s]) = 1
        /\ calls[s][1].tools = <<"t1">>
        /\ handshake[s] = "open"

\* C19: per request the upstream call is issued at most once and is not
\* issued again after a rejected handshake or a failure of the stream; it is
\* issued only for a POST to the relay route whose body has been read and
\* parsed as JSON, never for OPTIONS, GET, another method, another path or a
\* body that is not JSON.
C19_UpstreamCalledAtMostOnce ==
    \A s \in Sessions :
        /\ Len(calls[s]) <= 1
        /\ calls[s] # << >>
              => /\ RelayRequest(s)
                 /\ bodyRead[s]
                 /\ req[s].body.kind = "object"
        /\ Len(calls[s]) = 1 <=> handshake[s] # "none"
        /\ handshake[s] = "rejected" => pc[s] = "responded"

\* C19 witness: the upstream call of a session was rejected, the 500 was
\* returned and the call was not issued again.
C19_Witness ==
    \E s \in Sessions :
        /\ handshake[s] = "rejected"
        /\ pc[s] = "responded"
        /\ Len(calls[s]) = 1
        /\ req[s].body.messages = <<"m1", "m2">>

\* What C20 says of every state: once the client is gone at most one event
\* has been pulled beyond the frames written, the one whose enqueue threw.
C20_State ==
    \A s \in Sessions :
        client[s] = "gone"
            => /\ consumed[s] <= Len(written[s]) + 1
               /\ consumed[s] = Len(written[s]) + 1
                     => pc[s] = "errored" /\ caught[s] = "enqueue"

\* What C20 says of every step: a pull after the disconnect ends the loop, and
\* nothing is pulled once the loop has ended.
C20_Step ==
    \A s \in Sessions :
        /\ (client[s] = "gone" /\ consumed'[s] # consumed[s])
              => /\ consumed'[s] = consumed[s] + 1
                 /\ pc[s] = "streaming"
                 /\ pc'[s] = "errored"
        /\ pc[s] = "errored" => consumed'[s] = consumed[s]

\* C20: after a client disconnect the relay pulls at most one further
\* upstream event, the one whose write fails, then leaves the loop and pulls
\* no more, even when the upstream has more events to yield.
C20_StopsPullingAfterDisconnect == [](C20_State) /\ [][C20_Step]_vars

\* C20 witness: the client is gone, the write of the next event failed and
\* the upstream still has an event that is never pulled.
C20_Witness ==
    \E s \in Sessions :
        /\ client[s] = "gone"
        /\ caught[s] = "enqueue"
        /\ consumed[s] = 1
        /\ Len(script[s].events) = 2

====
